---- MODULE Spec2Model ----
(***************************************************************************)
(* Model of src/main.py (GitLab user-domain extractor).                    *)
(*                                                                         *)
(* Strings are sequences of character codes (ASCII), so that lower(),      *)
(* the regular expression, sorted() and the file contents are computed     *)
(* character by character.  An optional value (Python None or a string)    *)
(* is a sequence of length 0 (None) or 1 (the string).  A file is an       *)
(* optional content: <<>> when the file does not exist.                    *)
(***************************************************************************)
EXTENDS Integers, Sequences, FiniteSets

\* ------------------------------------------------------------------ bounds
MaxUsers == 2       \* users the instance holds at most
MaxBatch == 2       \* records the server puts in one page at most
MaxEmailLen == 1    \* every email over Alphabet up to this length is tried

\* --------------------------------------------------------- program constants
PerPage == 100      \* per_page=100 of gl.users.list
AT == 64            \* '@' of the pattern
NL == 10            \* "\n"

\* ------------------------------------------------------------ Python values
None == <<>>
Some(s) == <<s>>

\* bool(x) of an optional string: None and "" are falsy
Truthy(x) == x # <<>> /\ x[1] # <<>>

\* a or b
Or(a, b) == IF Truthy(a) THEN a ELSE b

\* ------------------------------------------------------------ str.lower()
lower_keepcase(s) == s

lower(s) == [i \in 1..Len(s) |-> IF s[i] \in 65..90 THEN s[i] + 32 ELSE s[i]]

\* --------------------------------------------- re.compile(r'@([a-zA-Z0-9.-]+)')
\* the character class [a-zA-Z0-9.-]
InClass(c) == c \in (97..122) \cup (65..90) \cup (48..57) \cup {46, 45}

\* greedy +: index of the last character of the run of class characters that
\* starts at i (s[i] is in the class)
RECURSIVE RunEnd(_, _)
RunEnd(s, i) == IF i + 1 <= Len(s) /\ InClass(s[i + 1]) THEN RunEnd(s, i + 1) ELSE i

NoMatch == <<>>

\* the attempt of the pattern at position p: a literal '@' and then at least
\* one class character; the match object is <<start, group(1)>> wrapped as an
\* optional
MatchAt(s, p) ==
    IF s[p] = AT /\ p + 1 <= Len(s) /\ InClass(s[p + 1])
    THEN Some([start |-> p, group1 |-> SubSeq(s, p + 1, RunEnd(s, p + 1))])
    ELSE NoMatch

RECURSIVE SearchFrom(_, _)
SearchFrom(s, p) ==
    IF p > Len(s) THEN NoMatch
    ELSE IF MatchAt(s, p) # NoMatch THEN MatchAt(s, p)
    ELSE SearchFrom(s, p + 1)

\* domain_pattern.search(email): leftmost match
search_last(s) ==
    LET hits == {p \in 1..Len(s) : MatchAt(s, p) # NoMatch}
    IN IF hits = {} THEN NoMatch
       ELSE MatchAt(s, CHOOSE p \in hits : \A q \in hits : q <= p)

search(s) == SearchFrom(s, 1)

\* ------------------------------------------------------------- sorted()
\* a < b and a <= b of Python strings: code point by code point, a proper
\* prefix is smaller
RECURSIVE StrLess(_, _)
StrLess(a, b) ==
    IF b = <<>> THEN FALSE
    ELSE IF a = <<>> THEN TRUE
    ELSE IF a[1] # b[1] THEN a[1] < b[1]
    ELSE StrLess(Tail(a), Tail(b))

StrLeq(a, b) == a = b \/ StrLess(a, b)

RECURSIVE sorted_desc(_)
sorted_desc(S) ==
    IF S = {} THEN <<>>
    ELSE LET m == CHOOSE x \in S : \A y \in S : StrLeq(y, x)
         IN <<m>> \o sorted_desc(S \ {m})

RECURSIVE sorted(_)
sorted(S) ==
    IF S = {} THEN <<>>
    ELSE LET m == CHOOSE x \in S : \A y \in S : StrLeq(x, y)
         IN <<m>> \o sorted(S \ {m})

\* sep.join(parts)
RECURSIVE join(_, _)
join(sep, parts) ==
    IF parts = <<>> THEN <<>>
    ELSE IF Len(parts) = 1 THEN parts[1]
    ELSE parts[1] \o sep \o join(sep, Tail(parts))

\* ------------------------------------------------------------- exceptions
Exc(cls) == [cls |-> cls, code |-> 0]
SystemExit(n) == [cls |-> "SystemExit", code |-> n]

\* isinstance(e, Exception): SystemExit derives from BaseException only
IsException(e) == e.cls # "SystemExit"

\* the except clauses of connect_gitlab: what leaves the function
connect_gitlab_except_continue(e) == Exc("Exception")

connect_gitlab_except(e) ==
    IF e.cls = "GitlabAuthenticationError" THEN SystemExit(2)
    ELSE IF e.cls = "RequestException" THEN SystemExit(3)
    ELSE e

\* the except clause of save_domains (IOError is OSError)
save_domains_except(e) ==
    IF e.cls = "OSError" THEN SystemExit(6) ELSE e

\* the except clause of main
main_except(e) ==
    IF IsException(e) THEN SystemExit(7) ELSE e

\* ------------------------------------------------------------------ inputs
Alphabet == {AT, 66}                           \* '@', 'B'

StringsUpTo(n) == UNION {[1..k -> Alphabet] : k \in 0..n}

\* longer addresses: "b@B.b", "B@b.B", "b@@b", "b@_b@.b", "b@b@B", "b@b_.b"
SampleEmails ==
    { <<98, 64, 66, 46, 98>>, <<66, 64, 98, 46, 66>>, <<98, 64, 64, 98>>,
      <<98, 64, 95, 98, 64, 46, 98>>, <<98, 64, 98, 64, 66>>,
      <<98, 64, 98, 95, 46, 98>> }

Emails == {None} \cup {Some(s) : s \in StringsUpTo(MaxEmailLen) \cup SampleEmails}

\* the k-th account of the instance is named "u<k>" (usernames are unique)
UserRecord(k, email) == [username |-> <<117, 48 + k>>, email |-> email]

\* the records of one page, the instance holding n accounts before it
Batch(n, emails) == [i \in 1..Len(emails) |-> UserRecord(n + i, emails[i])]

SeqsUpTo(S, n) == UNION {[1..k -> S] : k \in 0..n}

Min(a, b) == IF a < b THEN a ELSE b

\* values of --gitlab-url / --token and of the environment variables: not
\* given, empty, or a value
CliValues == {None, Some(<<>>), Some(<<120>>)}
EnvValues == {None, Some(<<>>), Some(<<120>>)}

\* what a previous run left in the working directory (both files, or none)
StaleUsers == <<117, 57, 32, 45, 32, 98, 64, 98, NL>>
StaleDomains == <<98, NL>>

\* ------------------------------------------------------------------- state
VARIABLES pc, exited, exit_code, cause, GITLAB_URL, PRIVATE_TOKEN, gl,
          users, page, batches, domains, skipped_users, idx,
          users_file, domains_file, prev_users_file, prev_domains_file,
          calls

vars == <<pc, exited, exit_code, cause, GITLAB_URL, PRIVATE_TOKEN, gl,
          users, page, batches, domains, skipped_users, idx,
          users_file, domains_file, prev_users_file, prev_domains_file,
          calls>>

Call(op, pg, pp) == [op |-> op, page |-> pg, per_page |-> pp]

Init ==
    /\ pc = "parse_args"
    /\ exited = FALSE
    /\ exit_code = -1
    /\ cause = "none"
    /\ GITLAB_URL = None
    /\ PRIVATE_TOKEN = None
    /\ gl = FALSE
    /\ users = <<>>
    /\ page = 1
    /\ batches = <<>>
    /\ domains = {}
    /\ skipped_users = 0
    /\ idx = 1
    /\ \E earlier_run \in BOOLEAN :
          /\ prev_users_file = (IF earlier_run THEN Some(StaleUsers) ELSE None)
          /\ prev_domains_file = (IF earlier_run THEN Some(StaleDomains) ELSE None)
    /\ users_file = prev_users_file
    /\ domains_file = prev_domains_file
    /\ calls = <<>>

\* the process ends with status code; cause records, for the properties
\* only, which event ended the run
Exit(code, why) ==
    /\ exited' = TRUE
    /\ exit_code' = code
    /\ cause' = why

\* an exception raised inside the try block of main
RaiseInMain(e, why) == Exit(main_except(e).code, why)

\* the statements of main's try block, in order (lines 137-140)
AfterCall_skip(fn) ==
    CASE fn = "connect_gitlab" -> "extract_open"
      [] fn = "get_users" -> "extract_open"
      [] fn = "extract_domains" -> "save_open"
      [] fn = "save_domains" -> "main_end"

AfterCall(fn) ==
    CASE fn = "connect_gitlab" -> "get_users"
      [] fn = "get_users" -> "extract_open"
      [] fn = "extract_domains" -> "save_open"
      [] fn = "save_domains" -> "main_end"

\* --------------------------------------------------------- configuration
\* parse_args(): argparse ends the process itself on a usage error
\* (parser.error -> status 2) and on -h/--help (status 0)
ParseArgsExit ==
    /\ ~exited /\ pc = "parse_args"
    /\ \E outcome \in {"usage_error", "help"} :
          Exit(IF outcome = "usage_error" THEN 2 ELSE 0, outcome)
    /\ UNCHANGED <<pc, GITLAB_URL, PRIVATE_TOKEN, gl, users, page, batches,
                   domains, skipped_users, idx, users_file, domains_file,
                   prev_users_file, prev_domains_file, calls>>

\* if not GITLAB_URL or not PRIVATE_TOKEN
MissingConfig_both(url, token) == ~Truthy(url) /\ ~Truthy(token)

MissingConfig(url, token) == ~Truthy(url) \/ ~Truthy(token)

\* lines 51-53 after a successful parse: the flag if truthy, else the
\* environment variable
ResolveConfig ==
    /\ ~exited /\ pc = "parse_args"
    /\ \E cli_url \in CliValues, cli_token \in CliValues,
          env_url \in EnvValues, env_token \in EnvValues :
          /\ GITLAB_URL' = Or(cli_url, env_url)
          /\ PRIVATE_TOKEN' = Or(cli_token, env_token)
    /\ pc' = "check_config"
    /\ UNCHANGED <<exited, exit_code, cause, gl, users, page, batches,
                   domains, skipped_users, idx, users_file, domains_file,
                   prev_users_file, prev_domains_file, calls>>

\* lines 55-57
CheckConfig ==
    /\ ~exited /\ pc = "check_config"
    /\ IF MissingConfig(GITLAB_URL, PRIVATE_TOKEN)
       THEN Exit(1, "missing_config") /\ pc' = pc
       ELSE pc' = "connect" /\ UNCHANGED <<exited, exit_code, cause>>
    /\ UNCHANGED <<GITLAB_URL, PRIVATE_TOKEN, gl, users, page, batches, domains, skipped_users, idx,
                   users_file, domains_file, prev_users_file,
                   prev_domains_file, calls>>

\* ------------------------------------------------------- connect_gitlab
AuthOutcomes == {"ok", "GitlabAuthenticationError", "RequestException",
                 "GitlabHttpError"}

AuthCause(outcome) ==
    CASE outcome = "GitlabAuthenticationError" -> "auth_rejected"
      [] outcome = "RequestException" -> "auth_transport"
      [] OTHER -> "auth_other"

connect_gitlab ==
    /\ ~exited /\ pc = "connect"
    /\ calls' = Append(calls, Call("auth", 0, 0))
    /\ \E outcome \in AuthOutcomes :
          IF outcome = "ok"
          THEN /\ gl' = TRUE
               /\ pc' = AfterCall("connect_gitlab")
               /\ UNCHANGED <<exited, exit_code, cause>>
          ELSE /\ RaiseInMain(connect_gitlab_except(Exc(outcome)),
                              AuthCause(outcome))
               /\ UNCHANGED <<gl, pc>>
    /\ UNCHANGED <<GITLAB_URL, PRIVATE_TOKEN, users, page, batches, domains,
                   skipped_users, idx, users_file, domains_file,
                   prev_users_file, prev_domains_file>>

\* ------------------------------------------------------------ get_users
\* if not batch: break
LoopEnds_short(batch) == Len(batch) < PerPage

LoopEnds(batch) == batch = <<>>

\* one iteration of the while loop: a list request and its response, a page
\* of records or an exception of the client library
get_users ==
    /\ ~exited /\ pc = "get_users"
    /\ calls' = Append(calls, Call("list", page, PerPage))
    /\ \/ \E emails \in SeqsUpTo(Emails,
                         Min(Min(MaxBatch, PerPage), MaxUsers - Len(users))) :
             LET batch == Batch(Len(users), emails)
             IN /\ batches' = Append(batches, batch)
                /\ IF LoopEnds(batch)
                   THEN /\ pc' = AfterCall("get_users")
                        /\ UNCHANGED <<users, page>>
                   ELSE /\ users' = users \o batch
                        /\ page' = page + 1
                        /\ pc' = pc
                /\ UNCHANGED <<exited, exit_code, cause>>
       \/ /\ RaiseInMain(Exc("GitlabListError"), "list_failure")
          /\ UNCHANGED <<pc, users, page, batches>>
    /\ UNCHANGED <<GITLAB_URL, PRIVATE_TOKEN, gl, domains, skipped_users, idx,
                   users_file, domains_file, prev_users_file,
                   prev_domains_file>>

\* ------------------------------------------------------ extract_domains
\* Path.open("w"): the file is created or truncated
OpenW_append(file) == IF file = None THEN Some(<<>>) ELSE file

OpenW(file) == Some(<<>>)

\* f.write(data)
Write(file, data) == Some(file[1] \o data)

\* the set comprehension of lines 102-106
DomainSet(us) ==
    { lower(search(us[i].email[1])[1].group1) :
        i \in { j \in DOMAIN us : /\ Truthy(us[j].email)
                                  /\ search(us[j].email[1]) # NoMatch } }

\* if user.email: of the write loop
HasEmail_matching(user) ==
    Truthy(user.email) /\ search(user.email[1]) # NoMatch

HasEmail(user) == Truthy(user.email)

\* f"{user.username} - {user.email}\n"
UserLine(user) == user.username \o <<32, 45, 32>> \o user.email[1] \o <<NL>>

\* skipped_users = 0, the file is opened, the domain set is built
extract_open ==
    /\ ~exited /\ pc = "extract_open"
    /\ \/ /\ users_file' = OpenW(users_file)
          /\ calls' = Append(calls, Call("open_users", 0, 0))
          /\ skipped_users' = 0
          /\ domains' = DomainSet(users)
          /\ idx' = 1
          /\ pc' = "extract_loop"
          /\ UNCHANGED <<exited, exit_code, cause>>
       \/ /\ RaiseInMain(Exc("OSError"), "users_open")
          /\ UNCHANGED <<users_file, calls, skipped_users, domains, idx, pc>>
    /\ UNCHANGED <<GITLAB_URL, PRIVATE_TOKEN, gl, users, page, batches,
                   domains_file, prev_users_file, prev_domains_file>>

\* one iteration of "for user in users" (lines 111-115); a failing write
\* leaves the with block, which closes the file
extract_loop ==
    /\ ~exited /\ pc = "extract_loop" /\ idx <= Len(users)
    /\ IF HasEmail(users[idx])
       THEN \/ /\ users_file' = Write(users_file, UserLine(users[idx]))
               /\ idx' = idx + 1
               /\ UNCHANGED <<skipped_users, calls, exited, exit_code, cause>>
            \/ /\ RaiseInMain(Exc("OSError"), "users_write")
               /\ calls' = Append(calls, Call("close_users", 0, 0))
               /\ UNCHANGED <<users_file, idx, skipped_users>>
       ELSE /\ skipped_users' = skipped_users + 1
            /\ idx' = idx + 1
            /\ UNCHANGED <<users_file, calls, exited, exit_code, cause>>
    /\ UNCHANGED <<pc, GITLAB_URL, PRIVATE_TOKEN, gl, users, page, batches,
                   domains, domains_file, prev_users_file, prev_domains_file>>

\* the with block ends, the file is closed, the set is returned
extract_return ==
    /\ ~exited /\ pc = "extract_loop" /\ idx > Len(users)
    /\ calls' = Append(calls, Call("close_users", 0, 0))
    /\ pc' = AfterCall("extract_domains")
    /\ UNCHANGED <<exited, exit_code, cause, GITLAB_URL, PRIVATE_TOKEN, gl, users,
                   page, batches, domains, skipped_users, idx, users_file,
                   domains_file, prev_users_file, prev_domains_file>>

\* ---------------------------------------------------------- save_domains
\* "\n".join(sorted(domains)) + "\n"
DomainsText_nosort(ds) == join(<<NL>>, sorted_desc(ds)) \o <<NL>>

DomainsText(ds) == join(<<NL>>, sorted(ds)) \o <<NL>>

\* DOMAINS_FILE.open("w")
save_open ==
    /\ ~exited /\ pc = "save_open"
    /\ \/ /\ domains_file' = OpenW(domains_file)
          /\ calls' = Append(calls, Call("open_domains", 0, 0))
          /\ pc' = "save_write"
          /\ UNCHANGED <<exited, exit_code, cause>>
       \/ /\ RaiseInMain(save_domains_except(Exc("OSError")), "domains_open")
          /\ UNCHANGED <<domains_file, calls, pc>>
    /\ UNCHANGED <<GITLAB_URL, PRIVATE_TOKEN, gl, users, page, batches,
                   domains, skipped_users, idx, users_file, prev_users_file,
                   prev_domains_file>>

\* f.write(...) and the end of the with block
save_write ==
    /\ ~exited /\ pc = "save_write"
    /\ calls' = Append(calls, Call("close_domains", 0, 0))
    /\ \/ /\ domains_file' = Write(domains_file, DomainsText(domains))
          /\ pc' = AfterCall("save_domains")
          /\ UNCHANGED <<exited, exit_code, cause>>
       \/ /\ RaiseInMain(save_domains_except(Exc("OSError")), "domains_write")
          /\ UNCHANGED <<domains_file, pc>>
    /\ UNCHANGED <<GITLAB_URL, PRIVATE_TOKEN, gl, users, page, batches,
                   domains, skipped_users, idx, users_file, prev_users_file,
                   prev_domains_file>>

\* main returns and the script ends
main_return ==
    /\ ~exited /\ pc = "main_end"
    /\ Exit(0, "completed")
    /\ UNCHANGED <<pc, GITLAB_URL, PRIVATE_TOKEN, gl, users, page, batches,
                   domains, skipped_users, idx, users_file, domains_file,
                   prev_users_file, prev_domains_file, calls>>

Next ==
    \/ ParseArgsExit
    \/ ResolveConfig
    \/ CheckConfig
    \/ connect_gitlab
    \/ get_users
    \/ extract_open
    \/ extract_loop
    \/ extract_return
    \/ save_open
    \/ save_write
    \/ main_return

Spec == Init /\ [][Next]_vars

\* ===================================================================
\* Properties.  The helpers below restate, declaratively, what the text
\* of the specification says; they do not use the operators of the model.
\* ===================================================================
IsHostChar(c) ==
    \/ c >= 97 /\ c <= 122
    \/ c >= 65 /\ c <= 90
    \/ c >= 48 /\ c <= 57
    \/ c = 46
    \/ c = 45

IsUpper(c) == c >= 65 /\ c <= 90

\* d is the lower-cased rendition of h
IsLowerOf(d, h) ==
    /\ Len(d) = Len(h)
    /\ \A i \in 1..Len(h) : d[i] = (IF IsUpper(h[i]) THEN h[i] + 32 ELSE h[i])

SameIgnoringCase(a, b) ==
    /\ Len(a) = Len(b)
    /\ \A i \in 1..Len(a) :
          (IF IsUpper(a[i]) THEN a[i] + 32 ELSE a[i]) =
          (IF IsUpper(b[i]) THEN b[i] + 32 ELSE b[i])

\* s[p] is an '@' directly followed by a host character
GoodAt(s, p) ==
    p \in 1..Len(s) /\ s[p] = 64 /\ p + 1 <= Len(s) /\ IsHostChar(s[p + 1])

\* h is the maximal run of host characters that starts right after position p
IsRunAfter(s, p, h) ==
    /\ p + Len(h) <= Len(s)
    /\ \A i \in 1..Len(h) : h[i] = s[p + i] /\ IsHostChar(s[p + i])
    /\ (p + Len(h) = Len(s) \/ ~IsHostChar(s[p + Len(h) + 1]))

\* the pattern matches s and captures h
Captures(s, h) ==
    \E p \in 1..Len(s) :
        /\ GoodAt(s, p)
        /\ \A q \in 1..(p - 1) : ~GoodAt(s, q)
        /\ h # <<>>
        /\ IsRunAfter(s, p, h)

\* position of the first '@' of s (s contains one)
FirstAt(s) == CHOOSE p \in 1..Len(s) : s[p] = 64 /\ \A q \in 1..(p - 1) : s[q] # 64

\* the maximal run of host characters right after position p
RunAfter(s, p) ==
    LET ends == {e \in p..Len(s) : \A i \in (p + 1)..e : IsHostChar(s[i])}
        last == CHOOSE e \in ends : \A f \in ends : f <= e
    IN SubSeq(s, p + 1, last)

\* the first '@' of s that is directly followed by a host character
FirstGoodAt(s) == CHOOSE p \in 1..Len(s) : GoodAt(s, p) /\ \A q \in 1..(p - 1) : ~GoodAt(s, q)

\* what the pattern captures from a matching s
CapturedHost(s) == RunAfter(s, FirstGoodAt(s))

NonEmptyEmail(u) == u.email # <<>> /\ u.email[1] # <<>>

PatternMatches(s) == \E p \in 1..Len(s) : GoodAt(s, p)

\* the text is cut at its newlines; the part after the last newline is dropped
RECURSIVE LinesOf(_)
LinesOf(text) ==
    IF \A i \in 1..Len(text) : text[i] # 10 THEN <<>>
    ELSE LET n == CHOOSE i \in 1..Len(text) :
                     text[i] = 10 /\ \A j \in 1..(i - 1) : text[j] # 10
         IN <<SubSeq(text, 1, n - 1)>> \o LinesOf(SubSeq(text, n + 1, Len(text)))

EndsWithNewline(text) == text # <<>> /\ text[Len(text)] = 10

\* a precedes b lexicographically
LexLess(a, b) ==
    \/ Len(a) < Len(b) /\ \A i \in 1..Len(a) : a[i] = b[i]
    \/ \E k \in 1..Min(Len(a), Len(b)) :
          /\ a[k] < b[k]
          /\ \A i \in 1..(k - 1) : a[i] = b[i]

Perms(n) == {f \in [1..n -> 1..n] : \A i, j \in 1..n : f[i] = f[j] => i = j}

\* extract_domains has just returned the set / has returned
DomainsReturned == pc = "save_open"
Extracted == pc \in {"save_open", "save_write", "main_end"}

\* the users whose email is non-empty, in list order
WithEmail == SelectSeq(users, NonEmptyEmail)

\* C1: the domain set built by extract_domains is exactly the set of
\* lower-cased hosts the pattern captures from the users with a non-empty,
\* matching email; no two members differ only by case; every permutation of
\* the user list gives the same set.
C1_DomainSetExact ==
    DomainsReturned =>
        LET good == {i \in DOMAIN users :
                        /\ NonEmptyEmail(users[i])
                        /\ PatternMatches(users[i].email[1])}
            host == [i \in good |-> CapturedHost(users[i].email[1])]
        IN /\ \A i \in good : Captures(users[i].email[1], host[i])
           /\ \A d \in domains : \E i \in good : IsLowerOf(d, host[i])
           /\ \A i \in good : \E d \in domains : IsLowerOf(d, host[i])
           /\ \A d1, d2 \in domains : SameIgnoringCase(d1, d2) => d1 = d2
           /\ \A f \in Perms(Len(users)) :
                 DomainSet([i \in 1..Len(users) |-> users[f[i]]]) = domains

\* two users whose hosts differ only by case gave one domain
C1_Witness ==
    /\ Extracted
    /\ Len(users) = 2
    /\ Cardinality(domains) = 1
    /\ NonEmptyEmail(users[1]) /\ NonEmptyEmail(users[2])
    /\ PatternMatches(users[1].email[1]) /\ PatternMatches(users[2].email[1])
    /\ CapturedHost(users[1].email[1]) # CapturedHost(users[2].email[1])

\* C2: after extract_domains has returned, all_users_with_domains.txt holds
\* exactly the lines "<username> - <email>" of the users with a non-empty
\* email, in list order, and nothing of its earlier content.
C2_UsersFileExact ==
    Extracted =>
        /\ users_file # <<>>
        /\ (users_file[1] = <<>> \/ EndsWithNewline(users_file[1]))
        /\ LinesOf(users_file[1]) =
              [i \in 1..Len(WithEmail) |->
                  WithEmail[i].username \o <<32, 45, 32>> \o WithEmail[i].email[1]]

\* a stale file was replaced; one user has an email and one has none
C2_Witness ==
    /\ Extracted
    /\ prev_users_file # <<>>
    /\ Len(users) = 2
    /\ Len(WithEmail) = 1

\* the text of unique_domains.txt after save_domains
DomainsFileWritten == pc = "main_end"

\* C3 as stated: for every domain set, the empty one included, the file has
\* exactly |D| lines, each a member of D, strictly ascending, and ends with a
\* newline.
C3_Original ==
    DomainsFileWritten =>
        LET text == domains_file[1]
            lines == LinesOf(text)
        IN /\ EndsWithNewline(text)
           /\ Len(lines) = Cardinality(domains)
           /\ \A i \in 1..Len(lines) : lines[i] \in domains
           /\ \A i \in 1..(Len(lines) - 1) : LexLess(lines[i], lines[i + 1])

\* C3 amended: the above for every non-empty domain set; for the empty set
\* the file is a single newline, that is one empty line.
C3_DomainsFileSorted ==
    DomainsFileWritten =>
        LET text == domains_file[1]
            lines == LinesOf(text)
        IN /\ EndsWithNewline(text)
           /\ \A i \in 1..Len(text) : ~IsUpper(text[i])
           /\ domains # {} =>
                 /\ Len(lines) = Cardinality(domains)
                 /\ \A i \in 1..Len(lines) : lines[i] \in domains
                 /\ \A i \in 1..(Len(lines) - 1) : LexLess(lines[i], lines[i + 1])
           /\ domains = {} => text = <<10>>

\* two domains were written
C3_Witness ==
    /\ DomainsFileWritten
    /\ Cardinality(domains) = 2
    /\ Len(LinesOf(domains_file[1])) = 2

\* the list requests issued so far
ListCalls == SelectSeq(calls, LAMBDA c : c.op = "list")

RECURSIVE Concat(_)
Concat(ss) == IF ss = <<>> THEN <<>> ELSE ss[1] \o Concat(Tail(ss))

GetUsersReturned == pc \in {"extract_open", "extract_loop", "save_open",
                            "save_write", "main_end"}

\* C4: the list requests carry the page indices 1, 2, ... in order with
\* per_page = 100; an empty page is the last response and no request follows
\* it; the loop is over as soon as it arrived; when get_users has returned,
\* pages 1..k were non-empty, page k+1 was empty, k+1 requests were issued
\* and the result is the concatenation of pages 1..k.
C4_Pagination ==
    /\ \A i \in 1..Len(ListCalls) :
          ListCalls[i].page = i /\ ListCalls[i].per_page = 100
    /\ Len(batches) <= Len(ListCalls)
    /\ \A i \in 1..Len(batches) :
          batches[i] = <<>> => (i = Len(batches) /\ Len(ListCalls) = i)
    /\ (pc = "get_users" /\ ~exited) =>
          /\ \A i \in 1..Len(batches) : batches[i] # <<>>
          /\ Len(ListCalls) = Len(batches)
    /\ GetUsersReturned =>
          /\ batches # <<>>
          /\ batches[Len(batches)] = <<>>
          /\ \A i \in 1..(Len(batches) - 1) : batches[i] # <<>>
          /\ Len(ListCalls) = Len(batches)
          /\ users = Concat(SubSeq(batches, 1, Len(batches) - 1))
    /\ users = Concat(batches)

\* two short pages and then the empty one: three requests
C4_Witness ==
    /\ GetUsersReturned
    /\ Len(ListCalls) = 3
    /\ Len(batches[1]) = 1 /\ Len(batches[2]) = 1 /\ batches[3] = <<>>
    /\ Len(users) = 2

\* number of newline characters
RECURSIVE CountNL(_)
CountNL(text) ==
    IF text = <<>> THEN 0
    ELSE (IF text[1] = 10 THEN 1 ELSE 0) + CountNL(Tail(text))

\* C5: after extraction the skip counter is the number of users with an
\* empty or absent email; a user whose non-empty email does not match the
\* pattern is not counted, gives no domain and has its line in the per-user
\* file; skip counter + lines of the per-user file = number of users.
C5_SkipCounter ==
    Extracted =>
        /\ skipped_users = Cardinality({i \in DOMAIN users : ~NonEmptyEmail(users[i])})
        /\ skipped_users + CountNL(users_file[1]) = Len(users)
        /\ \A i \in DOMAIN users :
              (NonEmptyEmail(users[i]) /\ ~PatternMatches(users[i].email[1])) =>
                  \E k \in 1..Len(LinesOf(users_file[1])) :
                      LinesOf(users_file[1])[k] =
                          users[i].username \o <<32, 45, 32>> \o users[i].email[1]
        /\ (\A i \in DOMAIN users :
               ~(NonEmptyEmail(users[i]) /\ PatternMatches(users[i].email[1])))
              => domains = {}

\* one user without email, one with a non-matching email
C5_Witness ==
    /\ Extracted
    /\ Len(users) = 2
    /\ skipped_users = 1
    /\ \E i \in DOMAIN users :
          NonEmptyEmail(users[i]) /\ ~PatternMatches(users[i].email[1])

\* the exit status the taxonomy assigns to the event that ended the run
ClaimedCode(why) ==
    CASE why = "missing_config" -> 1
      [] why = "auth_rejected" -> 2
      [] why = "auth_transport" -> 3
      [] why \in {"domains_open", "domains_write"} -> 6
      [] why \in {"completed", "help"} -> 0
      [] OTHER -> 7

\* C6 as stated: the exit status identifies the kind of the first failure:
\* 1 missing endpoint/token, 2 credential rejected at authentication,
\* 3 transport failure at authentication, 6 failure opening or writing
\* unique_domains.txt, 7 every other fault, 0 when no failure occurred; the
\* codes 1, 2, 3 and 6 have no other cause.
C6_Original == exited => exit_code = ClaimedCode(cause)

FilesUntouched ==
    /\ users_file = prev_users_file
    /\ domains_file = prev_domains_file
    /\ \A i \in 1..Len(calls) :
          calls[i].op \notin {"open_users", "close_users", "open_domains",
                              "close_domains"}

\* C7: a credential rejected at authentication ends the run with status 2, a
\* transport failure at authentication with status 3; in both cases the one
\* authentication call is the only network call (no retry, no list request)
\* and neither output file is created, truncated or modified.
C7_AuthFailure ==
    /\ cause = "auth_rejected" => (exited /\ exit_code = 2)
    /\ cause = "auth_transport" => (exited /\ exit_code = 3)
    /\ cause \in {"auth_rejected", "auth_transport"} =>
          /\ Len(calls) = 1 /\ calls[1].op = "auth"
          /\ FilesUntouched
          /\ ~gl
    /\ (exited /\ exit_code \in {2, 3} /\ calls # <<>>) =>
          cause \in {"auth_rejected", "auth_transport"}

\* the credential was rejected while files of an earlier run exist
C7_Witness ==
    /\ exited /\ exit_code = 2
    /\ cause = "auth_rejected"
    /\ prev_users_file # <<>> /\ prev_domains_file # <<>>
    /\ users_file # <<>> /\ domains_file # <<>>

IsAbsent(v) == v = <<>> \/ v[1] = <<>>

\* C8: once flags and environment are merged, an absent endpoint or token
\* ends the run with status 1 before any network call and before any output
\* file is opened; with both present the configuration step does not exit 1.
C8_MissingConfig ==
    /\ [](/\ exit_code = 1 =>
                /\ exited /\ pc = "check_config"
                /\ IsAbsent(GITLAB_URL) \/ IsAbsent(PRIVATE_TOKEN)
                /\ calls = <<>>
                /\ FilesUntouched
          /\ (pc = "check_config" /\ exited) => exit_code = 1
          /\ pc \notin {"parse_args", "check_config"} =>
                ~IsAbsent(GITLAB_URL) /\ ~IsAbsent(PRIVATE_TOKEN))
    /\ [][(pc = "check_config" /\ (IsAbsent(GITLAB_URL) \/ IsAbsent(PRIVATE_TOKEN)))
              => (exited' /\ exit_code' = 1 /\ calls' = <<>>)]_vars
    /\ [][(pc = "check_config" /\ ~IsAbsent(GITLAB_URL) /\ ~IsAbsent(PRIVATE_TOKEN))
              => (~exited' /\ exit_code' # 1)]_vars

\* the endpoint is present and the token is not
C8_Witness ==
    /\ exited /\ exit_code = 1
    /\ ~IsAbsent(GITLAB_URL) /\ IsAbsent(PRIVATE_TOKEN)

\* the five states of the run, numbered in order
StageRank ==
    CASE pc \in {"parse_args", "check_config", "connect"} -> 0   \* Unconfigured
      [] pc = "get_users" -> 1                                   \* Connected
      [] pc \in {"extract_open", "extract_loop"} -> 2            \* Enumerated
      [] pc \in {"save_open", "save_write"} -> 3                 \* Extracted
      [] pc = "main_end" -> 4                                    \* Persisted

CallRank(op) ==
    CASE op = "auth" -> 0
      [] op = "list" -> 1
      [] op = "open_users" -> 2
      [] op = "close_users" -> 3
      [] op = "open_domains" -> 4
      [] op = "close_domains" -> 5

\* the calls made so far are in pipeline order: one authentication, then the
\* page requests, then the per-user file opened and closed, then the domains
\* file opened and closed
CallsInOrder ==
    /\ \A i, j \in 1..Len(calls) :
          i < j => /\ CallRank(calls[i].op) <= CallRank(calls[j].op)
                   /\ (calls[i].op = calls[j].op => calls[i].op = "list")
    /\ StageRank >= 1 => \E i \in 1..Len(calls) : calls[i].op = "auth"
    /\ StageRank >= 2 => \E i \in 1..Len(calls) : calls[i].op = "list"
    /\ StageRank >= 3 => \E i \in 1..Len(calls) : calls[i].op = "close_users"
    /\ StageRank >= 4 => \E i \in 1..Len(calls) : calls[i].op = "close_domains"
    /\ \A j \in 1..Len(calls) :
          calls[j].op = "open_domains" =>
              \E i \in 1..(j - 1) : calls[i].op = "close_users"

Failed == cause \notin {"none", "completed", "help"}

BothFilesWritten ==
    /\ pc = "main_end"
    /\ users_file # <<>> /\ domains_file # <<>>
    /\ calls # <<>> /\ calls[Len(calls)].op = "close_domains"

\* C9 as stated, its state part: the calls are in pipeline order, a failed
\* run has a non-zero status, and status 0 occurs only after Persisted.
C9_Original ==
    /\ CallsInOrder
    /\ (exited /\ Failed) => exit_code # 0
    /\ (exited /\ exit_code = 0) => BothFilesWritten

\* C9 amended: the stages are entered in order, one at a time and never
\* again; the calls are in pipeline order; a failure ends the run on the spot
\* with a non-zero status and nothing runs after the exit; status 0 occurs
\* only after Persisted, or when the argument parser served -h/--help before
\* the configuration was resolved, no network call made and no file opened.
C9_LinearStages ==
    /\ [](/\ CallsInOrder
          /\ (exited /\ Failed) => exit_code # 0
          /\ (exited /\ exit_code = 0) =>
                \/ BothFilesWritten /\ cause = "completed"
                \/ /\ cause = "help" /\ pc = "parse_args"
                   /\ calls = <<>> /\ FilesUntouched)
    /\ [][/\ ~exited
          /\ StageRank' \in {StageRank, StageRank + 1}
          /\ exited' => (pc' = pc /\ users_file' = users_file
                                  /\ domains_file' = domains_file)
          /\ Failed' => exited']_vars

\* a complete run over two users ended with status 0
C9_Witness ==
    /\ exited /\ exit_code = 0
    /\ BothFilesWritten
    /\ Len(users) = 2
    /\ Len(ListCalls) = 3

\* C10 as stated: the host a user contributes is the lower-cased maximal run
\* of host characters immediately following the FIRST '@' of the email.
C10_Original ==
    DomainsReturned =>
        \A i \in DOMAIN users :
            (NonEmptyEmail(users[i]) /\ search(users[i].email[1]) # NoMatch) =>
                LET s == users[i].email[1]
                    m == search(s)[1]
                IN /\ m.start = FirstAt(s)
                   /\ m.group1 = RunAfter(s, FirstAt(s))

\* C10 amended: the host a user contributes is the lower-cased maximal run
\* of host characters immediately following the first '@' that is directly
\* followed by a host character; an '@' followed by anything else, or ending
\* the email, is passed over (in "a@@b.com" the text after the second '@' is
\* captured); an email without such an '@' contributes nothing.
C10_HostAfterFirstUsableAt ==
    DomainsReturned =>
        \A i \in DOMAIN users :
            NonEmptyEmail(users[i]) =>
                LET s == users[i].email[1]
                IN IF PatternMatches(s)
                   THEN /\ search(s) # NoMatch
                        /\ search(s)[1].start = FirstGoodAt(s)
                        /\ search(s)[1].group1 = RunAfter(s, FirstGoodAt(s))
                        /\ \E d \in domains : IsLowerOf(d, RunAfter(s, FirstGoodAt(s)))
                   ELSE search(s) = NoMatch

\* an email whose first '@' is passed over and whose later '@' gives the host
C10_Witness ==
    /\ Extracted
    /\ \E i \in DOMAIN users :
          /\ NonEmptyEmail(users[i])
          /\ PatternMatches(users[i].email[1])
          /\ FirstAt(users[i].email[1]) < FirstGoodAt(users[i].email[1])
          /\ RunAfter(users[i].email[1], FirstGoodAt(users[i].email[1])) \in domains

====
